---------------------------- MODULE Spec2Model ----------------------------
(***************************************************************************)
(* The ReAct loop of src/aipr_py_agent: ReActAgent.run (agent/agent.py),   *)
(* the confirmation gate and prompt loop of TUI (cli/ui.py), the tool      *)
(* signatures (tools/)     and main (main.py).                             *)
(*                                                                         *)
(* Python values that come out of json.loads are records                   *)
(*   [t |-> type tag, s |-> token sequence, kv |-> mapping]                *)
(* so that values of different Python types can be compared.  A Python str *)
(* is a sequence of tokens; FenceJson and Fence are the two fence markers  *)
(* that str.replace removes, every other token is opaque text.             *)
(***************************************************************************)
EXTENDS Naturals, Sequences, FiniteSets, TLC

(***************************************************************************)
(* Python / JSON values                                                    *)
(***************************************************************************)
NoMap == <<>>

Unset == [t |-> "unset", s |-> <<>>, kv |-> NoMap]

JNull == [t |-> "null", s |-> <<>>, kv |-> NoMap]

JStr(s) == [t |-> "str", s |-> s, kv |-> NoMap]

JNum(s) == [t |-> "num", s |-> s, kv |-> NoMap]

JArr(s) == [t |-> "arr", s |-> s, kv |-> NoMap]

JObj(m) == [t |-> "obj", s |-> <<>>, kv |-> m]

JSONDecodeError == [t |-> "JSONDecodeError", s |-> <<>>, kv |-> NoMap]

\* isinstance(v, dict): the only values with .get and **-unpacking
IsDict(v) == v.t = "obj"

\* key in d
Has(d, key) == key \in DOMAIN d.kv

\* d.get(key, default)
Get(d, key, default) == IF Has(d, key) THEN d.kv[key] ELSE default

\* lists and dicts are unhashable: using one as a dict key raises TypeError
Hashable(v) == v.t \notin {"arr", "obj"}

\* str(v) as it appears inside an f-string
Fmt(v) ==
    CASE v.t = "str" -> v.s
      [] v.t = "num" -> v.s
      [] v.t = "null" -> <<"None">>
      [] v.t = "arr" -> <<"[">> \o v.s \o <<"]">>
      [] OTHER -> <<"{...}">>

(***************************************************************************)
(* Raw model text: a sequence of segments.  A "json" segment is the        *)
(* serialization of the value v; "fence_json" is the marker FenceJson,     *)
(* "fence" the marker Fence, "ws" whitespace, "prose" any other text.      *)
(***************************************************************************)
Seg(k) == [k |-> k, v |-> JNull]

Payload(v) == [k |-> "json", v |-> v]

\* BQ3 stands for the three backquote characters, which a TLA+ string cannot hold
FenceJson == "BQ3json"

Fence == "BQ3"

\* s.replace(old, "") on a str
ReplaceTokens(s, old) == SelectSeq(s, LAMBDA tok : tok # old)

\* the effect of text.replace(old, "") on the string literals inside a
\* serialized value: the markers are plain characters there too
RECURSIVE ReplaceInValue(_, _)
ReplaceInValue(v, old) ==
    CASE v.t \in {"str", "arr"} -> [v EXCEPT !.s = ReplaceTokens(v.s, old)]
      [] v.t = "obj" ->
           [v EXCEPT !.kv = [key \in DOMAIN v.kv |-> ReplaceInValue(v.kv[key], old)]]
      [] OTHER -> v

SegKind(old) == IF old = FenceJson THEN "fence_json" ELSE "fence"

\* text.replace(old, "") for old one of the two fence markers
Replace(text, old) ==
    LET kept == SelectSeq(text, LAMBDA sg : sg.k # SegKind(old))
    IN  [n \in 1..Len(kept) |->
            IF kept[n].k = "json"
            THEN Payload(ReplaceInValue(kept[n].v, old))
            ELSE kept[n]]

RECURSIVE LStrip(_)
LStrip(text) ==
    IF text # <<>> /\ Head(text).k = "ws" THEN LStrip(Tail(text)) ELSE text

RECURSIVE RStrip(_)
RStrip(text) ==
    IF text # <<>> /\ text[Len(text)].k = "ws"
    THEN RStrip(SubSeq(text, 1, Len(text) - 1))
    ELSE text

\* text.strip()
Strip(text) == RStrip(LStrip(text))

\* mutant: only the bare marker is removed, the marker with the language tag stays
ExtractJsonTextKeepsTag(text) == Strip(Replace(Strip(text), Fence))

\* response.text.strip().replace(FenceJson, "").replace(Fence, "").strip()
ExtractJsonText(text) == Strip(Replace(Replace(Strip(text), FenceJson), Fence))

\* json.loads: one JSON document, whitespace around it allowed, nothing else
JsonLoads(text) ==
    LET body == SelectSeq(text, LAMBDA sg : sg.k # "ws")
    IN  IF Len(body) = 1 /\ body[1].k = "json" THEN body[1].v ELSE JSONDecodeError

\* json.dumps of a value
JsonDumps(v) == <<Payload(v)>>

(***************************************************************************)
(* Bounds and program constants                                            *)
(***************************************************************************)
\* max_iterations = 10
max_iterations == 10

\* how many requests the user types before leaving
MaxRuns == 2

\* subprocess.run(..., timeout=60)
ShellTimeout == 60

(***************************************************************************)
(* Tool registry and tool signatures                                       *)
(***************************************************************************)
\* self.tools = {...}: tool name -> function
ToolTable ==
    (<<"search_web">> :> "search_web") @@
    (<<"list_files">> :> "list_files") @@
    (<<"read_file">> :> "read_file") @@
    (<<"write_file">> :> "write_file") @@
    (<<"execute_shell_command">> :> "execute_shell_command")

\* self.dangerous_tools = [...]
DangerousList == << <<"write_file">>, <<"execute_shell_command">> >>

\* the parameters each tool function declares: required, and with a default
Params(fn) ==
    CASE fn = "search_web" -> [required |-> {"query"}, optional |-> {}]
      [] fn = "list_files" -> [required |-> {}, optional |-> {"directory"}]
      [] fn = "read_file" -> [required |-> {"filepath"}, optional |-> {}]
      [] fn = "write_file" -> [required |-> {"filepath", "content"}, optional |-> {}]
      [] fn = "execute_shell_command" -> [required |-> {"command"}, optional |-> {}]

\* whether the call fn(**args) binds: args is a mapping, every required
\* parameter is given and no unexpected keyword is; otherwise TypeError
Binds(fn, args) ==
    /\ IsDict(args)
    /\ Params(fn).required \subseteq DOMAIN args.kv
    /\ DOMAIN args.kv \subseteq Params(fn).required \cup Params(fn).optional

\* the value a bound parameter has inside the function
Arg(args, key, default) == Fmt(Get(args, key, JStr(default)))

\* the strings list_files can return
ListFilesResults(args) ==
    { <<"main.py", "\n", "agent/">>,
      <<"Error: Directory '">> \o Arg(args, "directory", <<".">>) \o <<"' not found.">> }

\* the strings read_file can return
ReadFileResults(args) ==
    { <<"<file content>">>,
      <<"Error: File '">> \o Arg(args, "filepath", <<>>) \o <<"' not found.">> }

\* the strings write_file can return
WriteFileResults(args) ==
    { <<"File '">> \o Arg(args, "filepath", <<>>) \o <<"' written successfully.">>,
      <<"An error occurred while writing the file: ", "<e>">> }

\* how subprocess.run can end: the command exits, the timeout expires, or
\* another exception is raised
SubprocessEvents == {"exited", "timeout", "error"}

\* no subprocess was run
NoEvent == "none"

\* mutant: there is no except clause for TimeoutExpired, the general one catches it
ExecuteShellCommandNoTimeoutClause(args, event) ==
    CASE event = "exited" ->
            <<"Command executed successfully with no output.\nReturn Code: ", "0">>
      [] event = "timeout" ->
            <<"An error occurred while executing the shell command: ", "<e>">>
      [] event = "error" ->
            <<"An error occurred while executing the shell command: ", "<e>">>

\* execute_shell_command(command): the string it returns for each way
\* subprocess.run can end
ExecuteShellCommand(args, event) ==
    CASE event = "exited" ->
            <<"Command executed successfully with no output.\nReturn Code: ", "0">>
      [] event = "timeout" ->
            <<"Error: Command timed out after 60 seconds.">>
      [] event = "error" ->
            <<"An error occurred while executing the shell command: ", "<e>">>

\* the strings execute_shell_command can return
ShellResults(args) == { ExecuteShellCommand(args, event) : event \in SubprocessEvents }

\* the strings search_web can return
SearchWebResults(args) ==
    { <<"Result 1:\n", "<title, snippet, url>">>,
      <<"An error occurred during web search: ", "<e>">> }

\* every tool function returns a str: its result, or the text of the
\* exception its own try/except caught
ToolResults(fn, args) ==
    CASE fn = "search_web" -> SearchWebResults(args)
      [] fn = "list_files" -> ListFilesResults(args)
      [] fn = "read_file" -> ReadFileResults(args)
      [] fn = "write_file" -> WriteFileResults(args)
      [] fn = "execute_shell_command" -> ShellResults(args)

(***************************************************************************)
(* The strings run builds                                                  *)
(***************************************************************************)
InvalidJsonPrompt ==
    <<"Invalid JSON format. Please check your response and provide it in the correct JSON format as specified in the instructions.">>

NoDecisionPrompt ==
    <<"Your response was invalid. It must contain either a 'final_answer' or an 'action' in the specified JSON format.">>

ExhaustedMessage ==
    <<"Agent could not complete the task within the maximum number of iterations.">>

\* mutant: the not-found observation does not say which tool
NotFoundObservationAnonymous(name) == <<"Error: Tool not found.">>

NotFoundObservation(name) == <<"Error: Tool '">> \o Fmt(name) \o <<"' not found.">>

\* mutant: the denial observation does not say which tool
DeniedObservationAnonymous(name) == <<"User denied permission.">>

DeniedObservation(name) == <<"User denied permission for tool '">> \o Fmt(name) \o <<"'.">>

\* mutant: the observation is sent without its prefix
ObservationPromptBare(obs) == obs

ObservationPrompt(obs) == <<"Observation: ">> \o obs

(***************************************************************************)
(* The confirmation panel                                                  *)
(***************************************************************************)
\* console markup tags: a token of a str that rich reads as a style tag
MarkupTags == {"[bold]", "[/bold]", "[red]"}

\* the keys of the argument mappings in the order the payloads write them;
\* a dict keeps the order of its JSON text
KeyOrder == <<"filepath", "path", "content", "command", "cwd", "query">>

RECURSIVE Repr(_)

RECURSIVE DictItems(_, _)
\* the items of str(d) for the keys of d, each after its separator
DictItems(d, keys) ==
    IF keys = <<>> THEN <<>>
    ELSE (IF Has(d, Head(keys))
          THEN <<", ", "'", Head(keys), "': ">> \o Repr(d.kv[Head(keys)])
          ELSE <<>>) \o DictItems(d, Tail(keys))

\* repr of a value: a str in quotes, its characters as they are
Repr(v) ==
    CASE v.t = "str" -> <<"'">> \o v.s \o <<"'">>
      [] v.t = "num" -> v.s
      [] v.t = "null" -> <<"None">>
      [] v.t = "arr" -> <<"[">> \o v.s \o <<"]">>
      [] OTHER ->
           LET items == DictItems(v, KeyOrder)
           IN  <<"{">> \o (IF items = <<>> THEN <<>> ELSE Tail(items)) \o <<"}">>

\* str(args)
Str(args) == Repr(args)

\* the f-string handed to Panel: console markup with the name and str(args) pasted in
PanelMarkup(name, args) ==
    <<"[bold]", "Tool:", "[/bold]", " ">> \o Fmt(name)
        \o <<"\n", "[bold]", "Arguments:", "[/bold]", " ">> \o Str(args)

\* console.print of a str: a markup tag becomes a style, it is not printed
RenderStr(markup) == SelectSeq(markup, LAMBDA tok : tok \notin MarkupTags)

\* the text the operator reads in the panel
PanelText(name, args) == RenderStr(PanelMarkup(name, args))

(***************************************************************************)
(* Inputs: what the completion service, the operator and the user may send *)
(***************************************************************************)
Thought == JStr(<<"I will do this next.">>)

ToolAction(name, args) == JObj([tool |-> JStr(<<name>>), args |-> args])

ReadArgs == JObj([filepath |-> JStr(<<"a.txt">>)])

WriteArgs == JObj([filepath |-> JStr(<<"a.txt">>), content |-> JStr(<<"hello">>)])

ShellArgs == JObj([command |-> JStr(<<"rm -rf build">>)])

\* a content that holds what rich reads as a style tag
StyledWriteArgs == JObj([filepath |-> JStr(<<"a.txt">>), content |-> JStr(<<"[red]", "hello">>)])

\* deserialized payloads the model may produce
Payloads ==
    { \* well-formed Decisions
      JObj([thought |-> Thought, final_answer |-> JStr(<<"done">>)]),
      JObj([final_answer |-> JStr(<<"run ", Fence, "make", Fence>>)]),
      JObj([final_answer |-> JStr(ExhaustedMessage)]),
      JObj([thought |-> Thought, action |-> ToolAction("read_file", ReadArgs)]),
      JObj([action |-> ToolAction("write_file", WriteArgs)]),
      JObj([thought |-> Thought, action |-> ToolAction("execute_shell_command", ShellArgs)]),
      JObj([action |-> ToolAction("search_web", JObj([query |-> JStr(<<"tla">>)]))]),
      JObj([action |-> JObj([tool |-> JStr(<<"list_files">>)])]),
      JObj([action |-> ToolAction("write_file", StyledWriteArgs)]),
      \* a final answer that is not a string
      JObj([final_answer |-> JArr(<<"a.txt">>)]),
      \* the same Decisions with another thought, no thought, a field that is not known
      JObj([final_answer |-> JStr(<<"done">>)]),
      JObj([thought |-> JStr(<<"Let me look at the file.">>),
            action |-> ToolAction("read_file", ReadArgs)]),
      JObj([thought |-> Thought, action |-> ToolAction("write_file", WriteArgs),
            confidence |-> JStr(<<"high">>)]),
      \* a tool that is not registered, and no tool at all
      JObj([action |-> ToolAction("delete_file", ReadArgs)]),
      JObj([action |-> JObj([args |-> ShellArgs])]),
      \* argument keys that do not fit the tool's parameters
      JObj([action |-> ToolAction("read_file", JObj([path |-> JStr(<<"a.txt">>)]))]),
      JObj([action |-> ToolAction("write_file", ReadArgs)]),
      JObj([action |-> ToolAction("execute_shell_command",
                                  JObj([command |-> JStr(<<"ls">>), cwd |-> JStr(<<"/">>)]))]),
      \* neither action nor final_answer; both
      JObj([thought |-> Thought]),
      JObj([final_answer |-> JStr(<<"done">>), action |-> ToolAction("write_file", WriteArgs)]),
      \* not a Decision object at all
      JArr(<<"done">>),
      JStr(<<"done">>),
      JNull,
      JObj([action |-> JNull]),
      JObj([action |-> JStr(<<"read_file">>)]),
      JObj([action |-> ToolAction("read_file", JArr(<<"a.txt">>))]),
      JObj([action |-> ToolAction("write_file", JNull)]),
      JObj([action |-> JObj([tool |-> JArr(<<"read_file">>), args |-> ReadArgs])]) }

\* the payload the way the prompt asks for it: inside one fenced block
Fenced(v) == <<Seg("fence_json"), Seg("ws")>> \o JsonDumps(v) \o <<Seg("ws"), Seg("fence")>>

\* raw texts the completion service may return
ModelTexts ==
    { Fenced(v) : v \in Payloads }
      \cup { JsonDumps(JObj([thought |-> Thought, final_answer |-> JStr(<<"done">>)])),
             JsonDumps(JObj([final_answer |-> JStr(<<"run ", Fence, "make", Fence>>)])),
             <<Seg("fence"), Seg("ws")>>
                \o JsonDumps(JObj([thought |-> Thought, final_answer |-> JStr(<<"done">>)]))
                \o <<Seg("ws"), Seg("fence")>>,
             <<Seg("prose")>>,
             <<Seg("prose"), Seg("ws")>>
                \o JsonDumps(JObj([thought |-> Thought, final_answer |-> JStr(<<"done">>)])),
             Fenced(JObj([thought |-> Thought, final_answer |-> JStr(<<"done">>)]))
                \o <<Seg("ws"), Seg("prose")>> }

\* what the operator may type at the confirmation prompt
GateInputs == {"y", "n", "", "Y", "yes"}

\* the operator has typed nothing at the gate in this iteration
NotTyped == "<nothing typed>"

\* what the user may type at the TUI prompt
UserInputs == {"exit", "QUIT", "fix the bug", "list the files"}

\* str.lower on the inputs above
Lower(str) ==
    CASE str = "QUIT" -> "quit"
      [] str = "Y" -> "y"
      [] OTHER -> str

(***************************************************************************)
(* State                                                                   *)
(***************************************************************************)
VARIABLES
    pc,               \* where control is: "prompt" (TUI.start waits for the user),
                      \* "loop" (head of the for loop), "parse" (send_message returned),
                      \* "decide" (json.loads returned), "confirm" (the gate waits for
                      \* the operator), "call" (the tool function is being called),
                      \* "returned" (run returned), "raised" (an exception left run),
                      \* "exited" (TUI.start is over)
    tools,            \* self.tools
    dangerous_tools,  \* self.dangerous_tools
    i,                \* the loop index of the iteration that is running or next
    next_prompt,      \* run's next_prompt
    response,         \* response.text of the call of this iteration
    parsed_response,  \* what json.loads gave in the latest iteration: the value, or
                      \* JSONDecodeError when it raised
    tool_name,        \* tool_name, if the latest iteration assigned it, else Unset
    tool_args,        \* tool_args, if the latest iteration assigned it, else Unset
    observation,      \* observation, if the latest iteration assigned it, else <<>>
    result,           \* the value run returned
    raised,           \* the exception that left run, "" if none
    sent,             \* the argument of the send_message call in flight or just returned
    asked,            \* what the gate was called with in the latest iteration (the panel
                      \* it prints is PanelText of that), Unset if it was not called
    answer,           \* what get_user_confirmation returned there: "y", "n" or ""
    invoked,          \* the tool call whose body ran in the latest iteration, Unset if none
    outcome,          \* how the latest iteration ended
    modelCalls,       \* send_message calls of this run
    gatePrompts,      \* get_user_confirmation calls of this run
    dangerousDecisions,  \* parsed responses of this run that are actions on a dangerous tool
    onlyRetries,      \* every iteration of this run so far ended in a corrective prompt
    typed,            \* what the operator typed last at the gate in the latest iteration
    toolCalls,        \* tool calls whose body ran in the latest iteration
    toolEvent,        \* how the subprocess of execute_shell_command ended there
    history,          \* chat_session.history of the run
    runs,             \* calls of self.agent.run by TUI.start so far
    cli_pc,           \* GeminiCodexCLI.process_file: where control is: "idle" (not
                      \* called), "open" (at open), "read" (at f.read), "dispatch" (at
                      \* the if chain), "model" (at generate_content in the method of
                      \* the operation), "except" (an exception is in flight inside the
                      \* try), "returned"
    files,            \* what the file system holds at each path
    file_path,        \* process_file's file_path
    operation,        \* process_file's operation
    code,             \* process_file's code
    exc,              \* the exception raised inside process_file's try, "" if none
    cli_result,       \* the string process_file returned, <<>> before it returns
    generate_calls    \* self.model.generate_content calls of this process_file call

vars ==
    <<pc, tools, dangerous_tools, i, next_prompt, response, parsed_response, tool_name,
      tool_args, observation, result, raised, sent, asked, answer, invoked, outcome,
      modelCalls, gatePrompts, dangerousDecisions, onlyRetries, typed, toolCalls,
      toolEvent, history, runs, cli_pc, files, file_path, operation, code, exc,
      cli_result, generate_calls>>

cliVars == <<cli_pc, files, file_path, operation, code, exc, cli_result, generate_calls>>

agentVars ==
    <<pc, tools, dangerous_tools, i, next_prompt, response, parsed_response, tool_name,
      tool_args, observation, result, raised, sent, asked, answer, invoked, outcome,
      modelCalls, gatePrompts, dangerousDecisions, onlyRetries, typed, toolCalls,
      toolEvent, history, runs>>

registry == <<tools, dangerous_tools>>

session == <<history, runs>>

iteration ==
    <<tool_name, tool_args, observation, asked, answer, typed, invoked, toolCalls,
      toolEvent, outcome>>

counters == <<modelCalls, gatePrompts, dangerousDecisions>>

\* kinds of iteration end that only put a corrective prompt in next_prompt
RetryKinds == {"parse_error", "no_decision"}

(***************************************************************************)
(* The conditions run and the gate test                                    *)
(***************************************************************************)
\* mutant: a final answer is honoured only when no action comes with it
HasFinalAnswerAlone(parsed) == Has(parsed, "final_answer") /\ ~Has(parsed, "action")

\* "final_answer" in parsed_response
HasFinalAnswer(parsed) == Has(parsed, "final_answer")

\* mutant: an action counts only when a thought comes with it
HasActionWithThought(parsed) == Has(parsed, "action") /\ Has(parsed, "thought")

\* "action" in parsed_response
HasAction(parsed) == Has(parsed, "action")

\* parsed_response.get("action", {})
ActionOf(parsed) == Get(parsed, "action", JObj(NoMap))

\* action.get("tool")
ToolNameOf(action) == Get(action, "tool", JNull)

\* action.get("args", {})
ToolArgsOf(action) == Get(action, "args", JObj(NoMap))

\* tool_name in self.tools, for a hashable tool_name
InTools(name) == name.t = "str" /\ name.s \in DOMAIN tools

\* mutant: every registered tool is taken for dangerous
IsDangerousAlways(name) == TRUE

\* mutant: write_file is missing from the dangerous list
IsDangerousShellOnly(name) == name = JStr(<<"execute_shell_command">>)

\* mutant: the gate remembers that it was consulted and asks once per run
IsDangerousOnce(name) ==
    /\ gatePrompts = 0
    /\ \E n \in 1..Len(dangerous_tools) : name.t = "str" /\ dangerous_tools[n] = name.s

\* tool_name in self.dangerous_tools
IsDangerous(name) ==
    \E n \in 1..Len(dangerous_tools) : name.t = "str" /\ dangerous_tools[n] = name.s

\* Prompt.ask(..., choices=["y", "n"], default="n") accepts an input or asks again
PromptAccepts(input) == input \in {"y", "n", ""}

\* mutant: the prompt's default is "y"
PromptAskDefaultYes(input) == IF input = "" THEN "y" ELSE input

\* the value Prompt.ask returns for an accepted input
PromptAsk(input) == IF input = "" THEN "n" ELSE input

\* confirm.lower() == "y"
Confirmed(confirm) == Lower(confirm) = "y"

\* prompt.lower() in ["exit", "quit"]
IsExit(input) == Lower(input) \in {"exit", "quit"}

\* a parsed response that is an action Decision on one of the dangerous tools
IsDangerousDecision(parsed) ==
    /\ IsDict(parsed)
    /\ ~Has(parsed, "final_answer")
    /\ Has(parsed, "action")
    /\ IsDict(parsed.kv.action)
    /\ Has(parsed.kv.action, "tool")
    /\ parsed.kv.action.kv.tool \in {JStr(<<"write_file">>), JStr(<<"execute_shell_command">>)}

\* the history start_chat is given: the ReAct prompt and the model's seeded reply
SeededHistory ==
    << [role |-> "user", parts |-> <<"REACT_PROMPT">>],
       [role |-> "model",
        parts |-> JsonDumps(JObj([thought |-> JStr(<<"OK, I understand the instructions.">>),
                                  action |-> JObj([tool |-> JStr(<<"list_files">>),
                                                   args |-> JObj(NoMap)])]))] >>

\* mutant: the chat session is kept on the agent and reused by the next run
ReuseChat == IF history = <<>> THEN SeededHistory ELSE history

\* self.model.start_chat(history=[...]): a new session for each run
StartChat == SeededHistory

\* what a send_message call that returns appends to the session's history: the
\* user turn and the model turn; the model keeps their roles and leaves out their parts
Exchange == <<[role |-> "user"], [role |-> "model"]>>

(***************************************************************************)
(* GeminiCodexCLI.process_file: inputs and the functions it calls          *)
(***************************************************************************)
\* the paths process_file is called with
Paths == {"a.py", "nonexistent.py"}

\* what can be at a path: a text file, a file that is not UTF-8 text, a directory,
\* nothing ("missing": no such file or directory), or nothing because a component of
\* the path is a file ("notdir")
FileStates == {"file", "binary", "directory", "missing", "notdir"}

\* the operations process_file is called with: the six it knows and two it does not
Operations == {"explain", "debug", "refactor", "test", "review", "docs", "summarize", ""}

\* the if chain of process_file: the operations that lead to a method
KnownOperations == {"explain", "debug", "refactor", "test", "review", "docs"}

\* what each method returns when its try catches an exception: its prefix
ErrorPrefix(op) ==
    CASE op = "explain" -> "Error explaining code: "
      [] op = "debug" -> "Error debugging code: "
      [] op = "refactor" -> "Error refactoring code: "
      [] op = "test" -> "Error generating tests: "
      [] op = "review" -> "Error performing code review: "
      [] op = "docs" -> "Error generating documentation: "

\* the exception open(file_path, 'r') raises for what is at the path
OpenError(state) ==
    CASE state = "missing" -> "FileNotFoundError"
      [] state = "notdir" -> "NotADirectoryError"
      [] state = "directory" -> "IsADirectoryError"

\* mutant: process_file has only the general except clause
ExceptResultGeneralOnly(exception, path) == <<"Error processing file: ", "<e>">>

\* the except clauses of process_file: the string returned for an exception
ExceptResult(exception, path) ==
    IF exception = "FileNotFoundError"
    THEN <<"File ", path, " not found">>
    ELSE <<"Error processing file: ", "<e>">>

(***************************************************************************)
(* Initial state: the agent is constructed, TUI.start waits for the user   *)
(***************************************************************************)
AgentInit ==
    /\ pc = "prompt"
    /\ tools = ToolTable
    /\ dangerous_tools = DangerousList
    /\ i = 0
    /\ next_prompt = <<>>
    /\ response = <<>>
    /\ parsed_response = Unset
    /\ tool_name = Unset
    /\ tool_args = Unset
    /\ observation = <<>>
    /\ result = Unset
    /\ raised = ""
    /\ sent = <<>>
    /\ asked = Unset
    /\ answer = ""
    /\ invoked = Unset
    /\ outcome = "none"
    /\ modelCalls = 0
    /\ gatePrompts = 0
    /\ dangerousDecisions = 0
    /\ onlyRetries = TRUE
    /\ typed = NotTyped
    /\ toolCalls = 0
    /\ toolEvent = NoEvent
    /\ history = <<>>
    /\ runs = 0

\* GeminiCodexCLI is constructed and process_file has not been called; one file exists
CliIdle ==
    /\ cli_pc = "idle"
    /\ files = [path \in Paths |-> IF path = "a.py" THEN "file" ELSE "missing"]
    /\ file_path = ""
    /\ operation = ""
    /\ code = <<>>
    /\ exc = ""
    /\ cli_result = <<>>
    /\ generate_calls = 0

Init == AgentInit /\ CliIdle

(***************************************************************************)
(* TUI.start and main                                                      *)
(***************************************************************************)
\* the user types exit or quit: the prompt loop breaks
UserExit ==
    /\ pc = "prompt"
    /\ \E input \in UserInputs : IsExit(input)
    /\ pc' = "exited"
    /\ UNCHANGED <<registry, session, cliVars, i, next_prompt, response, parsed_response, iteration,
                   result, raised, sent, counters, onlyRetries>>

\* the user types a request: self.agent.run(prompt, self) starts, up to the loop head
StartRun ==
    /\ pc = "prompt"
    /\ runs < MaxRuns
    /\ runs' = runs + 1
    /\ history' = StartChat
    /\ \E input \in UserInputs :
          /\ ~IsExit(input)
          /\ next_prompt' = <<input>>
    /\ pc' = "loop"
    /\ i' = 0
    /\ response' = <<>>
    /\ parsed_response' = Unset
    /\ tool_name' = Unset
    /\ tool_args' = Unset
    /\ observation' = <<>>
    /\ result' = Unset
    /\ raised' = ""
    /\ sent' = <<>>
    /\ asked' = Unset
    /\ answer' = ""
    /\ typed' = NotTyped
    /\ invoked' = Unset
    /\ toolCalls' = 0
    /\ toolEvent' = NoEvent
    /\ outcome' = "none"
    /\ modelCalls' = 0
    /\ gatePrompts' = 0
    /\ dangerousDecisions' = 0
    /\ onlyRetries' = TRUE
    /\ typed' = NotTyped
    /\ toolCalls' = 0
    /\ toolEvent' = NoEvent
    /\ UNCHANGED <<registry, cliVars>>

\* run returned: TUI.start prints the response and asks for the next request
PrintFinalAnswer ==
    /\ pc = "returned"
    /\ result.t = "str"
    /\ pc' = "prompt"
    /\ UNCHANGED <<registry, session, cliVars, i, next_prompt, response, parsed_response, iteration,
                   result, raised, sent, counters, onlyRetries>>

\* Markdown(response) parses a str: for any other value it raises, the exception
\* leaves TUI.start and main's except clause reports it and returns
PrintFinalAnswerRaises ==
    /\ pc = "returned"
    /\ result.t # "str"
    /\ pc' = "exited"
    /\ UNCHANGED <<registry, session, cliVars, i, next_prompt, response, parsed_response, iteration,
                   result, raised, sent, counters, onlyRetries>>

\* an exception left run: TUI.start does not catch it, main's except reports it
MainCatches ==
    /\ pc = "raised"
    /\ pc' = "exited"
    /\ UNCHANGED <<registry, session, cliVars, i, next_prompt, response, parsed_response, iteration,
                   result, raised, sent, counters, onlyRetries>>

(***************************************************************************)
(* ReActAgent.run: one action per step between two blocking calls          *)
(***************************************************************************)
\* the for loop has iterations left: chat_session.send_message(next_prompt) returns text
SendMessage ==
    /\ pc = "loop"
    /\ i < max_iterations
    /\ \E text \in ModelTexts : response' = text
    /\ sent' = next_prompt
    /\ history' = history \o Exchange
    /\ modelCalls' = modelCalls + 1
    /\ pc' = "parse"
    /\ UNCHANGED <<registry, runs, cliVars, i, next_prompt, parsed_response, iteration, result, raised,
                   gatePrompts, dangerousDecisions, onlyRetries>>

\* mutant: the failure of the call is caught like a parse error and the call is retried
SendMessageFailsRetried ==
    /\ pc = "loop"
    /\ i < max_iterations
    /\ sent' = next_prompt
    /\ modelCalls' = modelCalls + 1
    /\ raised' = "TransportError"
    /\ i' = i + 1
    /\ pc' = "loop"
    /\ UNCHANGED <<registry, session, cliVars, next_prompt, response, parsed_response, iteration,
                   result, gatePrompts, dangerousDecisions, onlyRetries>>

\* chat_session.send_message raises: nothing in run catches it
SendMessageFails ==
    /\ pc = "loop"
    /\ i < max_iterations
    /\ sent' = next_prompt
    /\ modelCalls' = modelCalls + 1
    /\ raised' = "TransportError"
    /\ pc' = "raised"
    /\ UNCHANGED <<registry, session, cliVars, i, next_prompt, response, parsed_response, iteration, result,
                   gatePrompts, dangerousDecisions, onlyRetries>>

\* mutant: the loop gives up one iteration early
LoopExhaustedEarly ==
    /\ pc = "loop"
    /\ i >= max_iterations - 1
    /\ result' = JStr(ExhaustedMessage)
    /\ pc' = "returned"
    /\ UNCHANGED <<registry, session, cliVars, i, next_prompt, response, parsed_response,
                   iteration, raised, sent, counters, onlyRetries>>

\* range(max_iterations) is used up: the return after the loop
LoopExhausted ==
    /\ pc = "loop"
    /\ i >= max_iterations
    /\ result' = JStr(ExhaustedMessage)
    /\ pc' = "returned"
    /\ UNCHANGED <<registry, session, cliVars, i, next_prompt, response, parsed_response, iteration, raised,
                   sent, counters, onlyRetries>>

\* mutant: an iteration that only retries does not count against the budget
EndIterationFreeRetry(kind, prompt) ==
    /\ outcome' = kind
    /\ onlyRetries' = (onlyRetries /\ kind \in RetryKinds)
    /\ next_prompt' = prompt
    /\ i' = IF kind \in RetryKinds THEN i ELSE i + 1
    /\ pc' = "loop"

\* what an iteration that ends at "continue" or at the bottom of the loop body leaves
EndIteration(kind, prompt) ==
    /\ outcome' = kind
    /\ onlyRetries' = (onlyRetries /\ kind \in RetryKinds)
    /\ next_prompt' = prompt
    /\ i' = i + 1
    /\ pc' = "loop"

\* json.loads raises JSONDecodeError: the except branch and its continue
ParseFails ==
    /\ pc = "parse"
    /\ JsonLoads(ExtractJsonText(response)) = JSONDecodeError
    /\ parsed_response' = JSONDecodeError
    /\ tool_name' = Unset
    /\ tool_args' = Unset
    /\ observation' = <<>>
    /\ asked' = Unset
    /\ answer' = ""
    /\ typed' = NotTyped
    /\ invoked' = Unset
    /\ toolCalls' = 0
    /\ toolEvent' = NoEvent
    /\ sent' = <<>>
    /\ EndIteration("parse_error", InvalidJsonPrompt)
    /\ UNCHANGED <<registry, session, cliVars, response, result, raised, counters>>

\* json.loads returns a value
ParseSucceeds ==
    /\ pc = "parse"
    /\ JsonLoads(ExtractJsonText(response)) # JSONDecodeError
    /\ parsed_response' = JsonLoads(ExtractJsonText(response))
    /\ tool_name' = Unset
    /\ tool_args' = Unset
    /\ observation' = <<>>
    /\ asked' = Unset
    /\ answer' = ""
    /\ typed' = NotTyped
    /\ invoked' = Unset
    /\ toolCalls' = 0
    /\ toolEvent' = NoEvent
    /\ outcome' = "running"
    /\ sent' = <<>>
    /\ dangerousDecisions' =
          dangerousDecisions + (IF IsDangerousDecision(parsed_response') THEN 1 ELSE 0)
    /\ pc' = "decide"
    /\ UNCHANGED <<registry, session, cliVars, i, next_prompt, response, result, raised, modelCalls,
                   gatePrompts, onlyRetries>>

\* an exception leaves run
Raise(exception) ==
    /\ raised' = exception
    /\ outcome' = "raised"
    /\ onlyRetries' = FALSE
    /\ pc' = "raised"

\* parsed_response.get("thought") on a value that is not a dict
RaiseNotDict ==
    /\ pc = "decide"
    /\ ~IsDict(parsed_response)
    /\ Raise("AttributeError")
    /\ UNCHANGED <<registry, session, cliVars, i, next_prompt, response, parsed_response, tool_name,
                   tool_args, observation, asked, answer, typed, invoked, toolCalls, toolEvent, result, sent, counters>>

\* mutant: run returns the whole parsed response
ReturnFinalAnswerWhole ==
    /\ pc = "decide"
    /\ IsDict(parsed_response)
    /\ HasFinalAnswer(parsed_response)
    /\ result' = parsed_response
    /\ outcome' = "final"
    /\ onlyRetries' = FALSE
    /\ pc' = "returned"
    /\ UNCHANGED <<registry, session, cliVars, i, next_prompt, response, parsed_response, tool_name,
                   tool_args, observation, asked, answer, typed, invoked, toolCalls, toolEvent,
                   raised, sent, counters>>

\* return parsed_response["final_answer"]
ReturnFinalAnswer ==
    /\ pc = "decide"
    /\ IsDict(parsed_response)
    /\ HasFinalAnswer(parsed_response)
    /\ result' = parsed_response.kv.final_answer
    /\ outcome' = "final"
    /\ onlyRetries' = FALSE
    /\ pc' = "returned"
    /\ UNCHANGED <<registry, session, cliVars, i, next_prompt, response, parsed_response, tool_name,
                   tool_args, observation, asked, answer, typed, invoked, toolCalls, toolEvent, raised, sent, counters>>

\* neither key: the else branch of the loop body
NoDecision ==
    /\ pc = "decide"
    /\ IsDict(parsed_response)
    /\ ~HasFinalAnswer(parsed_response)
    /\ ~HasAction(parsed_response)
    /\ EndIteration("no_decision", NoDecisionPrompt)
    /\ UNCHANGED <<registry, session, cliVars, response, parsed_response, tool_name, tool_args, observation,
                   asked, answer, typed, invoked, toolCalls, toolEvent, result, raised, sent, counters>>

\* the guard of the action branch
TakesAction ==
    /\ pc = "decide"
    /\ IsDict(parsed_response)
    /\ ~HasFinalAnswer(parsed_response)
    /\ HasAction(parsed_response)

\* action.get("tool") on an action that is not a dict
RaiseActionNotDict ==
    /\ TakesAction
    /\ ~IsDict(ActionOf(parsed_response))
    /\ Raise("AttributeError")
    /\ UNCHANGED <<registry, session, cliVars, i, next_prompt, response, parsed_response, tool_name,
                   tool_args, observation, asked, answer, typed, invoked, toolCalls, toolEvent, result, sent, counters>>

\* the action is a dict: tool_name and tool_args are read from it
ReadsAction ==
    /\ TakesAction
    /\ IsDict(ActionOf(parsed_response))
    /\ tool_name' = ToolNameOf(ActionOf(parsed_response))
    /\ tool_args' = ToolArgsOf(ActionOf(parsed_response))

\* tool_name not in self.tools on a list or dict: TypeError (unhashable)
RaiseUnhashableTool ==
    /\ ReadsAction
    /\ ~Hashable(tool_name')
    /\ Raise("TypeError")
    /\ UNCHANGED <<registry, session, cliVars, i, next_prompt, response, parsed_response, observation,
                   asked, answer, typed, invoked, toolCalls, toolEvent, result, sent, counters>>

\* mutant: a tool that is not found is entered in the table under the name asked for
ToolNotFoundRegisters ==
    /\ ReadsAction
    /\ Hashable(tool_name')
    /\ ~InTools(tool_name')
    /\ observation' = NotFoundObservation(tool_name')
    /\ tools' = (tool_name'.s :> "read_file") @@ tools
    /\ EndIteration("unknown_tool", ObservationPrompt(observation'))
    /\ UNCHANGED <<dangerous_tools, session, cliVars, response, parsed_response, asked, answer, typed,
                   invoked, toolCalls, toolEvent, result, raised, sent, counters>>

\* tool_name not in self.tools: the not-found observation
ToolNotFound ==
    /\ ReadsAction
    /\ Hashable(tool_name')
    /\ ~InTools(tool_name')
    /\ observation' = NotFoundObservation(tool_name')
    /\ EndIteration("unknown_tool", ObservationPrompt(observation'))
    /\ UNCHANGED <<registry, session, cliVars, response, parsed_response, asked, answer, typed, invoked, toolCalls, toolEvent, result,
                   raised, sent, counters>>

\* a dangerous tool: tui.get_user_confirmation(tool_name, tool_args) shows the panel
AskConfirmation ==
    /\ ReadsAction
    /\ Hashable(tool_name')
    /\ InTools(tool_name')
    /\ IsDangerous(tool_name')
    /\ asked' = [tool |-> tool_name', args |-> tool_args']
    /\ gatePrompts' = gatePrompts + 1
    /\ pc' = "confirm"
    /\ UNCHANGED <<registry, session, cliVars, i, next_prompt, response, parsed_response, observation,
                   answer, typed, invoked, toolCalls, toolEvent, outcome, result, raised, sent, modelCalls,
                   dangerousDecisions, onlyRetries>>

\* a tool that is not dangerous: called without a prompt
CallDirectly ==
    /\ ReadsAction
    /\ Hashable(tool_name')
    /\ InTools(tool_name')
    /\ ~IsDangerous(tool_name')
    /\ pc' = "call"
    /\ UNCHANGED <<registry, session, cliVars, i, next_prompt, response, parsed_response, observation,
                   asked, answer, typed, invoked, toolCalls, toolEvent, outcome, result, raised, sent, counters,
                   onlyRetries>>

\* Prompt.ask rejects an input that is not one of its choices and asks again
AskAgain ==
    /\ pc = "confirm"
    /\ \E input \in GateInputs : ~PromptAccepts(input) /\ typed' = input
    /\ UNCHANGED <<registry, session, cliVars, i, next_prompt, response, parsed_response, tool_name,
                   tool_args, observation, asked, answer, invoked, toolCalls, toolEvent, outcome,
                   result, raised, sent, counters, onlyRetries, pc>>

\* get_user_confirmation returns False: the denial observation
Denied ==
    /\ pc = "confirm"
    /\ \E input \in GateInputs :
          PromptAccepts(input) /\ ~Confirmed(PromptAsk(input)) /\ typed' = input
    /\ answer' = "n"
    /\ observation' = DeniedObservation(tool_name)
    /\ EndIteration("denied", ObservationPrompt(observation'))
    /\ UNCHANGED <<registry, session, cliVars, response, parsed_response, tool_name, tool_args, asked,
                   invoked, toolCalls, toolEvent, result, raised, sent, counters>>

\* mutant: the approved branch calls the tool and falls through to the direct call
ApprovedCallsTwice ==
    /\ pc = "confirm"
    /\ \E input \in GateInputs :
          PromptAccepts(input) /\ Confirmed(PromptAsk(input)) /\ typed' = input
    /\ answer' = "y"
    /\ invoked' = [tool |-> tool_name, args |-> tool_args]
    /\ toolCalls' = toolCalls + 1
    /\ pc' = "call"
    /\ UNCHANGED <<registry, session, cliVars, i, next_prompt, response, parsed_response, tool_name,
                   tool_args, observation, asked, toolEvent, outcome, result, raised,
                   sent, counters, onlyRetries>>

\* get_user_confirmation returns True
Approved ==
    /\ pc = "confirm"
    /\ \E input \in GateInputs :
          PromptAccepts(input) /\ Confirmed(PromptAsk(input)) /\ typed' = input
    /\ answer' = "y"
    /\ pc' = "call"
    /\ UNCHANGED <<registry, session, cliVars, i, next_prompt, response, parsed_response, tool_name,
                   tool_args, observation, asked, invoked, toolCalls, toolEvent, outcome, result, raised, sent,
                   counters, onlyRetries>>

\* tool_function(**tool_args) does not bind: TypeError, outside any try
CallRaises ==
    /\ pc = "call"
    /\ ~Binds(tools[tool_name.s], tool_args)
    /\ Raise("TypeError")
    /\ UNCHANGED <<registry, session, cliVars, i, next_prompt, response, parsed_response, tool_name,
                   tool_args, observation, asked, answer, typed, invoked, toolCalls, toolEvent, result, sent, counters>>

\* tool_function(**tool_args) runs and returns its string
ToolReturns ==
    /\ pc = "call"
    /\ Binds(tools[tool_name.s], tool_args)
    /\ \E event \in SubprocessEvents :
          IF tools[tool_name.s] = "execute_shell_command"
          THEN /\ observation' = ExecuteShellCommand(tool_args, event)
               /\ toolEvent' = event
          ELSE /\ observation' \in ToolResults(tools[tool_name.s], tool_args)
               /\ toolEvent' = NoEvent
    /\ invoked' = [tool |-> tool_name, args |-> tool_args]
    /\ toolCalls' = toolCalls + 1
    /\ EndIteration("executed", ObservationPrompt(observation'))
    /\ UNCHANGED <<registry, session, cliVars, response, parsed_response, tool_name, tool_args, asked,
                   answer, typed, result, raised, sent, counters>>

Next ==
    \/ UserExit
    \/ StartRun
    \/ PrintFinalAnswer
    \/ PrintFinalAnswerRaises
    \/ MainCatches
    \/ SendMessage
    \/ SendMessageFails
    \/ LoopExhausted
    \/ ParseFails
    \/ ParseSucceeds
    \/ RaiseNotDict
    \/ ReturnFinalAnswer
    \/ NoDecision
    \/ RaiseActionNotDict
    \/ RaiseUnhashableTool
    \/ ToolNotFound
    \/ AskConfirmation
    \/ CallDirectly
    \/ AskAgain
    \/ Denied
    \/ Approved
    \/ CallRaises
    \/ ToolReturns

Spec == Init /\ [][Next]_vars

\* the loop head: the completion service answers or fails, or the budget is spent
LoopStep == SendMessage \/ SendMessageFails \/ LoopExhausted

\* json.loads is total: it returns or raises, so run always leaves the parse
\* position; the step is named by its effect on pc (it is ParseFails or
\* ParseSucceeds, the only actions at pc = "parse")
ParseStep == pc = "parse" /\ pc' \in {"loop", "decide"}

\* the straight-line code between json.loads and the gate or the call
DecideStep ==
    \/ RaiseNotDict
    \/ ReturnFinalAnswer
    \/ NoDecision
    \/ RaiseActionNotDict
    \/ RaiseUnhashableTool
    \/ ToolNotFound
    \/ AskConfirmation
    \/ CallDirectly

\* the operator ends up typing an answer Prompt.ask accepts
GateAnswered == Approved \/ Denied

\* the capability returns or raises
CallStep == CallRaises \/ ToolReturns

\* run is one thread of straight-line code around three blocking calls: it goes
\* on whenever the completion service, the gate prompt and the capability
\* return.  Nothing obliges the user to type a further request.
LiveSpec ==
    /\ Spec
    /\ WF_vars(LoopStep)
    /\ WF_pc(ParseStep)
    /\ WF_vars(DecideStep)
    /\ WF_vars(GateAnswered)
    /\ WF_vars(CallStep)

(***************************************************************************)
(* GeminiCodexCLI.process_file                                             *)
(***************************************************************************)
\* process_file(file_path, operation) is called
ProcessFile ==
    /\ cli_pc = "idle"
    /\ \E path \in Paths, op \in Operations :
          /\ file_path' = path
          /\ operation' = op
    /\ code' = <<>>
    /\ exc' = ""
    /\ cli_result' = <<>>
    /\ generate_calls' = 0
    /\ cli_pc' = "open"
    /\ UNCHANGED <<files, agentVars>>

\* open(file_path, 'r') raises
OpenRaises ==
    /\ cli_pc = "open"
    /\ files[file_path] \in {"missing", "notdir", "directory"}
    /\ exc' = OpenError(files[file_path])
    /\ cli_pc' = "except"
    /\ UNCHANGED <<files, file_path, operation, code, cli_result, generate_calls, agentVars>>

\* open(file_path, 'r') returns the file
OpenReturns ==
    /\ cli_pc = "open"
    /\ files[file_path] \in {"file", "binary"}
    /\ cli_pc' = "read"
    /\ UNCHANGED <<files, file_path, operation, code, exc, cli_result, generate_calls,
                   agentVars>>

\* f.read() raises on bytes that are not UTF-8
ReadRaises ==
    /\ cli_pc = "read"
    /\ files[file_path] = "binary"
    /\ exc' = "UnicodeDecodeError"
    /\ cli_pc' = "except"
    /\ UNCHANGED <<files, file_path, operation, code, cli_result, generate_calls, agentVars>>

\* code = f.read()
ReadReturns ==
    /\ cli_pc = "read"
    /\ files[file_path] = "file"
    /\ code' = <<"<text of ", file_path, ">">>
    /\ cli_pc' = "dispatch"
    /\ UNCHANGED <<files, file_path, operation, exc, cli_result, generate_calls, agentVars>>

\* the else of the if chain: result = "Unknown operation"; return result
UnknownOperation ==
    /\ cli_pc = "dispatch"
    /\ operation \notin KnownOperations
    /\ cli_result' = <<"Unknown operation">>
    /\ cli_pc' = "returned"
    /\ UNCHANGED <<files, file_path, operation, code, exc, generate_calls, agentVars>>

\* a branch of the if chain calls its method, which calls generate_content
CallOperation ==
    /\ cli_pc = "dispatch"
    /\ operation \in KnownOperations
    /\ generate_calls' = generate_calls + 1
    /\ cli_pc' = "model"
    /\ UNCHANGED <<files, file_path, operation, code, exc, cli_result, agentVars>>

\* generate_content returns: the method returns response.text, process_file returns it
GenerateContentReturns ==
    /\ cli_pc = "model"
    /\ cli_result' = <<"<response.text>">>
    /\ cli_pc' = "returned"
    /\ UNCHANGED <<files, file_path, operation, code, exc, generate_calls, agentVars>>

\* generate_content raises: the method's own except returns its error string
GenerateContentRaises ==
    /\ cli_pc = "model"
    /\ cli_result' = <<ErrorPrefix(operation), "<e>">>
    /\ cli_pc' = "returned"
    /\ UNCHANGED <<files, file_path, operation, code, exc, generate_calls, agentVars>>

\* the except clauses of process_file return a string
ExceptClause ==
    /\ cli_pc = "except"
    /\ cli_result' = ExceptResult(exc, file_path)
    /\ cli_pc' = "returned"
    /\ UNCHANGED <<files, file_path, operation, code, exc, generate_calls, agentVars>>

\* the caller has the result and may call again
ProcessFileReturned ==
    /\ cli_pc = "returned"
    /\ cli_pc' = "idle"
    /\ UNCHANGED <<files, file_path, operation, code, exc, cli_result, generate_calls,
                   agentVars>>

\* the file system is what it is when the CLI starts
InitCli ==
    /\ AgentInit
    /\ cli_pc = "idle"
    /\ files \in [Paths -> FileStates]
    /\ file_path = ""
    /\ operation = ""
    /\ code = <<>>
    /\ exc = ""
    /\ cli_result = <<>>
    /\ generate_calls = 0

NextCli ==
    \/ ProcessFile
    \/ OpenRaises
    \/ OpenReturns
    \/ ReadRaises
    \/ ReadReturns
    \/ UnknownOperation
    \/ CallOperation
    \/ GenerateContentReturns
    \/ GenerateContentRaises
    \/ ExceptClause
    \/ ProcessFileReturned

SpecCli == InitCli /\ [][NextCli]_vars

(***************************************************************************)
(* Properties                                                              *)
(***************************************************************************)
\* the two capabilities the specification calls dangerous
DangerousNames == {JStr(<<"write_file">>), JStr(<<"execute_shell_command">>)}

\* the only exception that may leave run is the completion service's
OnlyTransportFailure == raised \in {"", "TransportError"}

\* the only value run may have returned is the exhaustion message, at the ceiling
OnlyExhaustion ==
    result # Unset => (result = JStr(ExhaustedMessage) /\ i = max_iterations)

\* the latest iteration's next_prompt is what the next send_message call is given
FedBack(prompt) ==
    /\ next_prompt = prompt
    /\ pc = "parse" => sent = prompt

\* C1: a dangerous capability is called, and its body runs, only in an iteration
\* in which the gate was consulted for that tool and those arguments and
\* returned approval
C1_DangerousOnlyAfterApproval ==
    /\ (pc = "call" /\ tool_name \in DangerousNames) =>
          (asked = [tool |-> tool_name, args |-> tool_args] /\ answer = "y")
    /\ (invoked # Unset /\ invoked.tool \in DangerousNames) =>
          (asked = invoked /\ answer = "y")

C1_Witness ==
    /\ invoked # Unset
    /\ invoked.tool = JStr(<<"execute_shell_command">>)
    /\ asked = invoked
    /\ answer = "y"
    /\ outcome = "executed"

\* C2: the gate has no memory: the gate prompts of a run are as many as the
\* parsed responses that are actions on a dangerous tool (the one being
\* dispatched not yet counted), and an iteration on a dangerous tool that was
\* denied or executed was prompted for its own tool and arguments
C2_EveryDangerousActionPrompts ==
    /\ gatePrompts + (IF pc = "decide" /\ IsDangerousDecision(parsed_response) THEN 1 ELSE 0)
          = dangerousDecisions
    /\ (outcome \in {"denied", "executed"} /\ tool_name \in DangerousNames) =>
          asked = [tool |-> tool_name, args |-> tool_args]

\* the second of two consecutive identical write_file actions, the first approved
\* and executed, waits at its own prompt
C2_Witness ==
    /\ pc = "confirm"
    /\ i = 1
    /\ gatePrompts = 2
    /\ asked = [tool |-> JStr(<<"write_file">>), args |-> WriteArgs]
    /\ next_prompt = <<"Observation: ", "File '", "a.txt", "' written successfully.">>

\* C3: after a denial the capability was not invoked, the observation is the
\* denial message naming the tool, it is the input of the next model call, and
\* nothing but the ceiling or a failure of that next call ends the run
C3_DenialIsAnObservation ==
    outcome = "denied" =>
        /\ invoked = Unset
        /\ answer = "n"
        /\ asked # Unset /\ asked.tool = tool_name
        /\ observation = <<"User denied permission for tool '">> \o tool_name.s \o <<"'.">>
        /\ FedBack(<<"Observation: ">> \o observation)
        /\ OnlyTransportFailure
        /\ OnlyExhaustion
        /\ pc = "loop" => modelCalls = i

C3_Witness ==
    /\ outcome = "denied"
    /\ pc = "parse"
    /\ sent = <<"Observation: ", "User denied permission for tool '", "write_file", "'.">>

\* C4: once a parsed response holds final_answer, run has returned exactly that
\* value in the iteration that received it: no model call follows, whatever
\* budget is left
C4_FinalAnswerEndsRun ==
    (pc # "decide" /\ IsDict(parsed_response) /\ Has(parsed_response, "final_answer")) =>
        /\ pc \in {"returned", "prompt", "exited"}
        /\ outcome = "final"
        /\ result = parsed_response.kv.final_answer
        /\ raised = ""
        /\ modelCalls = i + 1
        /\ invoked = Unset
        /\ asked = Unset

C4_Witness ==
    /\ pc = "returned"
    /\ outcome = "final"
    /\ i = 3
    /\ modelCalls = 4
    /\ result = JStr(<<"done">>)

\* C5: a run in which no response was a final answer and no model call failed
\* ends with the exhaustion message after exactly max_iterations model calls
\* and iterations
C5_ExhaustsAfterCeiling ==
    (pc \in {"returned", "raised"} /\ outcome # "final" /\ raised # "TransportError") =>
        /\ pc = "returned"
        /\ result = JStr(ExhaustedMessage)
        /\ modelCalls = max_iterations
        /\ i = max_iterations

\* a response that does not deserialize, or is an object with neither key
Malformed(text) ==
    LET v == JsonLoads(ExtractJsonText(text))
    IN  \/ v = JSONDecodeError
        \/ IsDict(v) /\ ~Has(v, "final_answer") /\ ~Has(v, "action")

\* C6: an iteration whose response is malformed invokes no capability, shows
\* no prompt, puts the corrective instruction into the next model call and
\* consumes one iteration; the run goes on until the ceiling, also when every
\* response so far was malformed
C6_MalformedIsRetried ==
    /\ (pc \in {"loop", "returned"} /\ modelCalls > 0 /\ Malformed(response)) =>
          outcome \in RetryKinds
    /\ outcome \in RetryKinds =>
          /\ Malformed(response) \/ pc \in {"parse", "raised"}
          /\ invoked = Unset
          /\ asked = Unset
          /\ FedBack(IF outcome = "parse_error"
                     THEN <<"Invalid JSON format. Please check your response and provide it in the correct JSON format as specified in the instructions.">>
                     ELSE <<"Your response was invalid. It must contain either a 'final_answer' or an 'action' in the specified JSON format.">>)
          /\ OnlyTransportFailure
          /\ OnlyExhaustion
    /\ pc = "loop" => modelCalls = i
    /\ (onlyRetries /\ pc = "loop") => (i <= max_iterations /\ gatePrompts = 0)
    /\ (onlyRetries /\ pc = "returned") => (result = JStr(ExhaustedMessage) /\ modelCalls = max_iterations)

\* ten malformed responses in a row, each retried, used up the budget
C6_Witness ==
    /\ onlyRetries
    /\ pc = "returned"
    /\ outcome = "parse_error"
    /\ modelCalls = max_iterations
    /\ result = JStr(ExhaustedMessage)

\* C7: a parsed response that holds both final_answer and action is treated as
\* malformed: its final_answer is not returned and its action is not executed
C7_BothIsRejected ==
    (pc # "decide" /\ IsDict(parsed_response) /\ Has(parsed_response, "final_answer")
        /\ Has(parsed_response, "action")) =>
        /\ outcome \in RetryKinds
        /\ result # parsed_response.kv.final_answer
        /\ invoked = Unset

\* a value that deserialized but is no Decision object
NotADecision(v) ==
    /\ v \notin {Unset, JSONDecodeError}
    /\ \/ ~IsDict(v)
       \/ /\ Has(v, "action")
          /\ \/ ~IsDict(v.kv.action)
             \/ Has(v.kv.action, "args") /\ ~IsDict(v.kv.action.kv.args)

\* C8: a response that deserializes to something that is no Decision object is
\* handled as a malformed response and never makes an exception leave run
C8_NonDecisionIsRetried ==
    (pc \notin {"decide", "confirm", "call"} /\ NotADecision(parsed_response)) =>
        /\ outcome \in RetryKinds
        /\ OnlyTransportFailure

\* an action Decision whose tool is not a key of the tool table
NamesUnknownTool(v) ==
    /\ IsDict(v)
    /\ ~Has(v, "final_answer")
    /\ Has(v, "action")
    /\ IsDict(v.kv.action)
    /\ Hashable(Get(v.kv.action, "tool", JNull))
    /\ Get(v.kv.action, "tool", JNull).s \notin DOMAIN ToolTable

\* C9: an action on a tool that is not registered invokes nothing and raises
\* nothing: the observation says that this tool was not found, it is the
\* input of the next model call, and one iteration is consumed
C9_UnknownToolIsAnObservation ==
    /\ (pc # "decide" /\ NamesUnknownTool(parsed_response)) => outcome = "unknown_tool"
    /\ outcome = "unknown_tool" =>
          /\ NamesUnknownTool(parsed_response) \/ pc = "parse"
          /\ invoked = Unset
          /\ asked = Unset
          /\ observation = <<"Error: Tool '">>
                              \o (IF tool_name.t = "str" THEN tool_name.s ELSE <<"None">>)
                              \o <<"' not found.">>
          /\ FedBack(<<"Observation: ">> \o observation)
          /\ OnlyTransportFailure
          /\ OnlyExhaustion
          /\ pc = "loop" => modelCalls = i

C9_Witness ==
    /\ outcome = "unknown_tool"
    /\ pc = "parse"
    /\ tool_name = JStr(<<"delete_file">>)
    /\ sent = <<"Observation: ", "Error: Tool '", "delete_file", "' not found.">>

\* C10: once a Decision named a registered tool with a mapping as args, no
\* exception of the call leaves run
C10_CallNeverRaises ==
    (tool_name.t = "str" /\ tool_name.s \in DOMAIN ToolTable /\ IsDict(tool_args)) =>
        OnlyTransportFailure


\* C11: when send_message fails in an iteration the run ends there: the exception leaves
\* run (and only main is left to act), the failed call is not repeated and no other
\* model call follows, next_prompt is not replaced, no tool is called, the gate is not
\* consulted, nothing is returned and the iteration counter stays
C11_TransportFailureEndsRun ==
    [][ raised' = "TransportError" =>
          /\ pc' \in {"raised", "exited"}
          /\ modelCalls' = IF raised = "TransportError" THEN modelCalls ELSE modelCalls + 1
          /\ sent' = next_prompt
          /\ result' = Unset
          /\ UNCHANGED <<i, next_prompt, response, parsed_response, iteration, history,
                         result, gatePrompts>> ]_vars

C11_Witness ==
    /\ raised = "TransportError"
    /\ pc = "raised"
    /\ i = 1
    /\ modelCalls = 2
    /\ outcome = "executed"
    /\ next_prompt = ObservationPrompt(observation)

\* C12: a run that ended by a final_answer Decision never returns the value that run
\* returns when the iterations are used up, so the caller can tell the two endings apart
C12_ExhaustionIsDistinct ==
    (pc = "returned" /\ outcome = "final") => result # JStr(ExhaustedMessage)

\* C13: the gate fails closed: get_user_confirmation returns True only when the operator
\* typed "y"; an empty input makes it return False; an input that is neither "y", "n"
\* nor empty makes it return nothing at all, the prompt is still open
C13_GateFailsClosed ==
    /\ answer = "y" => typed = "y"
    /\ typed = "" => answer = "n"
    /\ typed \notin {NotTyped, "y", "n", ""} => (answer = "" /\ pc = "confirm")
    /\ answer = "n" => typed \in {"n", ""}

C13_Witness ==
    /\ typed = ""
    /\ answer = "n"
    /\ outcome = "denied"
    /\ asked # Unset
    /\ toolCalls = 0

\* a parsed response that is acted on as an action, on a tool that is a key of the
\* registry and an element of the dangerous list
RegisteredDangerousAction(parsed) ==
    /\ IsDict(parsed)
    /\ ~Has(parsed, "final_answer")
    /\ Has(parsed, "action")
    /\ IsDict(parsed.kv.action)
    /\ Has(parsed.kv.action, "tool")
    /\ parsed.kv.action.kv.tool.t = "str"
    /\ parsed.kv.action.kv.tool.s \in DOMAIN tools
    /\ \E n \in 1..Len(dangerous_tools) : dangerous_tools[n] = parsed.kv.action.kv.tool.s

\* C14: the gate is consulted in an iteration exactly when the response is an action on
\* a tool that is registered and dangerous: once the response is dispatched, a prompt was
\* shown if and only if it is such an action; a tool that ran without being one ran with
\* no prompt, and an unknown tool, a final answer and a malformed response show none
C14_GateIffRegisteredDangerous ==
    /\ pc # "decide" => (asked # Unset <=> RegisteredDangerousAction(parsed_response))
    /\ asked # Unset => asked.tool \in {JStr(<<"write_file">>), JStr(<<"execute_shell_command">>)}
    /\ outcome \in {"unknown_tool", "final", "parse_error", "no_decision"} => asked = Unset
    /\ pc = "decide" => asked = Unset

C14_Witness ==
    /\ outcome = "executed"
    /\ invoked # Unset
    /\ invoked.tool = JStr(<<"search_web">>)
    /\ asked = Unset
    /\ gatePrompts = 0

\* the requests a run can be started with
Goals == { <<input>> : input \in {u \in UserInputs : Lower(u) \notin {"exit", "quit"}} }

\* C15: what send_message is given: in the first iteration the user's goal, and in
\* every later iteration not the goal but what the iteration before left: after a tool
\* ran, was denied or was not found, "Observation: " followed by that observation, and
\* after a response that was no JSON or no Decision, the corrective instruction for it
C15_NextInputIsObservation ==
    (sent # <<>>) =>
        /\ sent = next_prompt
        /\ i = 0 => sent \in Goals
        /\ i > 0 =>
              /\ sent \notin Goals
              /\ outcome \in {"executed", "denied", "unknown_tool", "parse_error",
                              "no_decision"}
              /\ outcome \in {"executed", "denied", "unknown_tool"} =>
                    (observation # <<>> /\ sent = <<"Observation: ">> \o observation)
              /\ outcome = "parse_error" => sent = InvalidJsonPrompt
              /\ outcome = "no_decision" => sent = NoDecisionPrompt

C15_Witness ==
    /\ pc = "parse"
    /\ i = 2
    /\ outcome = "denied"
    /\ observation = <<"User denied permission for tool '", "write_file", "'.">>
    /\ sent = <<"Observation: ", "User denied permission for tool '", "write_file", "'.">>

\* where control is between the send_message call of an iteration and the end of it
InIteration == pc \in {"parse", "decide", "confirm", "call"}

\* C16: a run is strictly sequential: an iteration calls at most one tool; a tool is
\* called only after the response of its iteration was parsed, and returns before the
\* next send_message call starts; send_message is called only at the head of the loop,
\* when the iteration before is over, and exactly one call belongs to each iteration
\* (toolCalls, invoked and outcome show the iteration before until the new response
\* is parsed)
C16_StrictlySequential ==
    /\ [](/\ toolCalls <= 1
          /\ InIteration => modelCalls = i + 1
          /\ pc = "loop" => modelCalls = i
          /\ pc = "call" => (toolCalls = 0 /\ sent = <<>> /\ IsDict(parsed_response))
          /\ toolCalls = 1 => /\ outcome = "executed"
                              /\ invoked # Unset
                              /\ pc \notin {"decide", "confirm", "call"})
    /\ [][/\ toolCalls' = toolCalls + 1 =>
                (pc = "call" /\ pc' = "loop" /\ modelCalls = i + 1 /\ modelCalls' = i')
          /\ modelCalls' = modelCalls + 1 =>
                (pc = "loop" /\ modelCalls = i /\ UNCHANGED <<toolCalls, invoked, i>>)]_vars

C16_Witness ==
    /\ pc = "parse"
    /\ i = 1
    /\ modelCalls = 2
    /\ toolCalls = 1
    /\ outcome = "executed"
    /\ invoked # Unset
    /\ invoked.tool = JStr(<<"execute_shell_command">>)

\* run was entered and has not called send_message yet
RunStarts == pc = "loop" /\ modelCalls = 0

\* C17: whatever runs came before, a run starts with the seeded two-turn history and
\* nothing else in it, the loop index 0 and all 10 iterations left, the user's request as
\* the next input, and no observation, gate answer, tool call or result of an earlier run;
\* during the run the history is the seeded one followed by the turns of this run's calls
C17_StateIsScopedToRun ==
    /\ RunStarts =>
          /\ runs >= 1
          /\ history = SeededHistory
          /\ i = 0
          /\ max_iterations - i = 10
          /\ next_prompt \in Goals
          /\ response = <<>> /\ parsed_response = Unset
          /\ tool_name = Unset /\ tool_args = Unset /\ observation = <<>>
          /\ asked = Unset /\ answer = "" /\ typed = NotTyped
          /\ invoked = Unset /\ toolCalls = 0
          /\ outcome = "none" /\ result = Unset /\ raised = ""
          /\ gatePrompts = 0 /\ dangerousDecisions = 0
    /\ runs >= 1 =>
          /\ Len(history) = 2 + 2 * (modelCalls - (IF raised = "TransportError" THEN 1 ELSE 0))
          /\ SubSeq(history, 1, 2) = SeededHistory
          /\ i <= 10 /\ modelCalls <= 10

C17_Witness ==
    /\ runs = 2
    /\ RunStarts
    /\ history = SeededHistory
    /\ next_prompt = <<"list the files">>

\* the payloads that are well-formed Decisions: an object with an action on a named
\* tool with an args object, or with a final_answer string, and not both
WellFormedDecisions ==
    { v \in Payloads :
        /\ IsDict(v)
        /\ \/ /\ Has(v, "final_answer") /\ ~Has(v, "action")
              /\ v.kv.final_answer.t = "str"
           \/ /\ Has(v, "action") /\ ~Has(v, "final_answer")
              /\ IsDict(v.kv.action)
              /\ Has(v.kv.action, "tool") /\ v.kv.action.kv.tool.t = "str"
              /\ Has(v.kv.action, "args") /\ IsDict(v.kv.action.kv.args) }

\* C18: a well-formed Decision that the service sends in its JSON serialization, fence
\* markers inside its strings included, comes out of extraction and json.loads as the
\* same Decision
C18_RoundTrip ==
    \A d \in WellFormedDecisions :
        (pc # "parse" /\ response = JsonDumps(d)) => parsed_response = d

\* the text with one enclosing pair of fence markers taken off, if it has one
StripOneWrapper(text) ==
    LET t == Strip(text)
    IN  IF /\ Len(t) >= 2
           /\ t[1].k \in {"fence_json", "fence"}
           /\ t[Len(t)].k = "fence"
        THEN Strip(SubSeq(t, 2, Len(t) - 1))
        ELSE t

\* C19: extraction takes one enclosing pair of fence markers off the response and
\* changes nothing else: what the iteration parsed is what json.loads gives for the
\* response without that one pair, fence markers inside its strings being still there
C19_StripsOneWrapperOnly ==
    (pc # "parse" /\ response # <<>>) =>
        parsed_response = JsonLoads(StripOneWrapper(response))

\* the well-formed Decisions without a fence marker inside a string
MarkerFree ==
    WellFormedDecisions \ {JObj([final_answer |-> JStr(<<"run ", Fence, "make", Fence>>)])}

\* the payload inside one pair of fence markers, with or without the language tag
InFences(d) ==
    { <<Seg("fence_json"), Seg("ws")>> \o JsonDumps(d) \o <<Seg("ws"), Seg("fence")>>,
      <<Seg("fence"), Seg("ws")>> \o JsonDumps(d) \o <<Seg("ws"), Seg("fence")>> }

\* the payload, fenced or not, with prose before it or after it
InProse(d) ==
    { <<Seg("prose"), Seg("ws")>> \o JsonDumps(d),
      JsonDumps(d) \o <<Seg("ws"), Seg("prose")>>,
      <<Seg("prose"), Seg("ws"), Seg("fence_json"), Seg("ws")>> \o JsonDumps(d)
          \o <<Seg("ws"), Seg("fence")>>,
      <<Seg("fence_json"), Seg("ws")>> \o JsonDumps(d)
          \o <<Seg("ws"), Seg("fence"), Seg("ws"), Seg("prose")>> }

WriteDecision == JObj([action |-> ToolAction("write_file", WriteArgs)])

DoneDecision == JObj([thought |-> Thought, final_answer |-> JStr(<<"done">>)])

WriteCall == [tool |-> JStr(<<"write_file">>), args |-> WriteArgs]

\* C21: the model asks for write_file, the operator approves, the model then answers
\* "done". Step by step: the action is shown at the gate (one more prompt, no call yet);
\* the approval leads to the call; the call runs write_file once, with the Decision's
\* args, ends the iteration and puts "Observation: " and the result in next_prompt; the
\* next send_message is given that; the final answer is parsed and returned as "done"
\* with no further prompt, call or iteration
C21_ApprovedWriteThenDone ==
    [][ /\ (pc = "decide" /\ parsed_response = WriteDecision) =>
              /\ pc' = "confirm"
              /\ asked' = WriteCall
              /\ gatePrompts' = gatePrompts + 1
              /\ toolCalls' = 0 /\ invoked' = Unset /\ i' = i
        /\ (pc = "confirm" /\ parsed_response = WriteDecision /\ answer' = "y") =>
              /\ pc' = "call"
              /\ typed' = "y"
              /\ toolCalls' = 0 /\ gatePrompts' = gatePrompts /\ asked' = WriteCall
        /\ (pc = "call" /\ parsed_response = WriteDecision) =>
              /\ answer = "y"
              /\ pc' = "loop"
              /\ toolCalls' = 1
              /\ invoked' = WriteCall
              /\ observation' \in { <<"File '", "a.txt", "' written successfully.">>,
                                    <<"An error occurred while writing the file: ", "<e>">> }
              /\ next_prompt' = <<"Observation: ">> \o observation'
              /\ i' = i + 1
              /\ gatePrompts' = gatePrompts
        /\ (pc = "loop" /\ parsed_response = WriteDecision /\ invoked = WriteCall
                /\ pc' = "parse") =>
              /\ sent' = <<"Observation: ">> \o observation
              /\ modelCalls' = modelCalls + 1
        /\ (pc = "parse" /\ response \in {Fenced(DoneDecision), JsonDumps(DoneDecision)}) =>
              /\ pc' = "decide"
              /\ parsed_response' = DoneDecision
              /\ UNCHANGED <<i, modelCalls, gatePrompts>>
        /\ (pc = "decide" /\ parsed_response = DoneDecision) =>
              /\ pc' = "returned"
              /\ result' = JStr(<<"done">>)
              /\ toolCalls' = 0 /\ asked' = Unset
              /\ UNCHANGED <<i, modelCalls, gatePrompts>> ]_vars

\* the second send_message call of the scenario has returned the final answer: the
\* ghosts still show the first iteration
C21_Witness ==
    /\ pc = "parse"
    /\ i = 1
    /\ modelCalls = 2
    /\ parsed_response = WriteDecision
    /\ asked = WriteCall
    /\ answer = "y"
    /\ invoked = WriteCall
    /\ toolCalls = 1
    /\ gatePrompts = 1
    /\ sent = <<"Observation: ", "File '", "a.txt", "' written successfully.">>
    /\ response = Fenced(DoneDecision)

\* the part of a parsed object that run reads to decide: its final_answer and action
Core(parsed) ==
    [k \in DOMAIN parsed.kv \cap {"final_answer", "action"} |-> parsed.kv[k]]

SafeNames == {JStr(<<"search_web">>), JStr(<<"list_files">>), JStr(<<"read_file">>)}

C23_TimeoutIsAnObservation ==
    toolEvent = "timeout" =>
        /\ invoked # Unset
        /\ invoked.tool = JStr(<<"execute_shell_command">>)
        /\ toolCalls = 1
        /\ outcome = "executed"
        /\ observation = <<"Error: Command timed out after 60 seconds.">>
        /\ next_prompt = <<"Observation: ", "Error: Command timed out after 60 seconds.">>
        /\ raised \in {"", "TransportError"}
        /\ pc = "parse" => sent = next_prompt
        /\ (pc = "returned" \/ result # Unset) =>
              (result = JStr(ExhaustedMessage) /\ i = max_iterations)

C23_Witness ==
    /\ toolEvent = "timeout"
    /\ pc = "parse"
    /\ i = 1
    /\ raised = ""
    /\ sent = <<"Observation: ", "Error: Command timed out after 60 seconds.">>

\* C24: the registry stays what the constructor made it: the tool table has the same
\* five names with the same functions, the dangerous list the same two names, and every
\* dangerous name is a key of the table, whatever runs, responses, gate answers and tool
\* results there were
C24_RegistryIsFixed ==
    /\ DOMAIN tools = { <<"search_web">>, <<"list_files">>, <<"read_file">>,
                        <<"write_file">>, <<"execute_shell_command">> }
    /\ \A name \in DOMAIN tools : tools[name] = name[1]
    /\ dangerous_tools = << <<"write_file">>, <<"execute_shell_command">> >>
    /\ \A n \in 1..Len(dangerous_tools) : dangerous_tools[n] \in DOMAIN tools

\* a second run, after tools ran, a tool was not found and the gate was asked
C24_Witness ==
    /\ runs = 2
    /\ pc = "loop"
    /\ i = 3
    /\ outcome = "unknown_tool"
    /\ gatePrompts >= 1
    /\ tools = ToolTable

\* C25: process_file on an unknown operation returns "Unknown operation" and calls
\* no model, whatever the path
C25_UnknownOperationAlways ==
    (cli_pc = "returned" /\ operation \notin {"explain", "debug", "refactor", "test",
                                              "review", "docs"}) =>
        (cli_result = <<"Unknown operation">> /\ generate_calls = 0)

\* C25, as the code has it: every call of process_file returns a string; when open
\* finds no such file the string is "File <path> not found" and no model was called,
\* whatever the operation; every other exception of open and read gives "Error
\* processing file: ..."; an unknown operation calls no model, and gives "Unknown
\* operation" when the file could be read; a known operation on a readable file makes
\* exactly one model call
C25_ProcessFileReturnsStrings ==
    /\ cli_pc \in {"idle", "open", "read", "dispatch", "model", "except", "returned"}
    /\ cli_pc = "returned" =>
          /\ cli_result # <<>>
          /\ files[file_path] = "missing" =>
                (cli_result = <<"File ", file_path, " not found">> /\ generate_calls = 0)
          /\ files[file_path] \in {"notdir", "directory", "binary"} =>
                (cli_result = <<"Error processing file: ", "<e>">> /\ generate_calls = 0)
          /\ operation \notin {"explain", "debug", "refactor", "test", "review", "docs"} =>
                /\ generate_calls = 0
                /\ files[file_path] = "file" => cli_result = <<"Unknown operation">>
          /\ (files[file_path] = "file"
                /\ operation \in {"explain", "debug", "refactor", "test", "review", "docs"})
                => generate_calls = 1

C25_Witness ==
    /\ cli_pc = "returned"
    /\ file_path = "nonexistent.py"
    /\ files[file_path] = "missing"
    /\ operation = "summarize"
    /\ cli_result = <<"File ", "nonexistent.py", " not found">>
    /\ generate_calls = 0

\* C26: at the ceiling: run returns without a final answer only with the exhaustion
\* message, and only when 10 iterations are over and 10 send_message calls were made,
\* the last of them ended without a final answer; a response with a final_answer that
\* comes from the 10th call is returned like any other
C26_CeilingBoundary ==
    /\ [](/\ (pc = "returned" /\ outcome # "final") =>
                /\ result = JStr(ExhaustedMessage)
                /\ i = 10 /\ modelCalls = 10
                /\ outcome \in {"executed", "denied", "unknown_tool", "parse_error",
                                "no_decision"}
          /\ (pc = "returned" /\ outcome = "final") =>
                /\ i <= 9 /\ modelCalls = i + 1
                /\ result = parsed_response.kv.final_answer)
    /\ [][(pc = "decide" /\ modelCalls = 10 /\ IsDict(parsed_response)
             /\ "final_answer" \in DOMAIN parsed_response.kv) =>
                /\ pc' = "returned"
                /\ result' = parsed_response.kv.final_answer
                /\ outcome' = "final"
                /\ i' = 9]_vars

C26_Witness ==
    /\ pc = "returned"
    /\ outcome = "final"
    /\ modelCalls = 10
    /\ i = 9
    /\ result = JStr(<<"done">>)

\* run is between its entry and its end
RunActive == pc \in {"loop", "parse", "decide", "confirm", "call"}

\* run has returned or an exception has left it
RunOver == pc \in {"returned", "raised"}

\* C27: when every call returns, a run that started comes to an end: it returns or an
\* exception leaves it; and in every run there are at most 10 send_message calls and at
\* most 10 gate prompts, and every tool call and every gate prompt belongs to an
\* iteration of its own, of which there are at most 10 (the step that leaves the
\* parse position is json.loads returning or raising, nothing else)
C27_RunTerminates ==
    /\ [](/\ i <= 10
          /\ modelCalls <= 10
          /\ gatePrompts <= 10
          /\ gatePrompts <= modelCalls
          /\ toolCalls <= 1)
    /\ [][/\ toolCalls' = toolCalls + 1 => (i' = i + 1 /\ i' <= 10)
          /\ gatePrompts' = gatePrompts + 1 => (gatePrompts' <= i + 1 /\ i < 10)
          /\ (pc = "parse" /\ pc' # pc) <=> (ParseFails \/ ParseSucceeds)]_vars
    /\ RunActive ~> RunOver

C27_Witness ==
    /\ pc = "returned"
    /\ i = 10
    /\ modelCalls = 10
    /\ gatePrompts = 10
    /\ toolCalls = 1
    /\ result = JStr(ExhaustedMessage)

\* the response carries both a final answer and an action
BothKeys(parsed) == IsDict(parsed) /\ Has(parsed, "final_answer") /\ Has(parsed, "action")

\* C28: the iteration whose response holds final_answer reads no action, consults
\* no gate and calls no tool, also when the response holds an action as well:
\* from the decision point it goes straight to the return of that value, with
\* the gate-prompt count of the run left as it was
C28_FinalAnswerInvokesNothing ==
    /\ []((IsDict(parsed_response) /\ Has(parsed_response, "final_answer")) =>
             /\ pc \notin {"confirm", "call"}
             /\ tool_name = Unset
             /\ tool_args = Unset
             /\ typed = NotTyped
             /\ toolCalls = 0
             /\ toolEvent = NoEvent
             /\ observation = <<>>)
    /\ [][(pc = "decide" /\ IsDict(parsed_response) /\ Has(parsed_response, "final_answer")) =>
             /\ pc' = "returned"
             /\ result' = parsed_response.kv.final_answer
             /\ gatePrompts' = gatePrompts
             /\ toolCalls' = 0]_vars

C28_Witness ==
    /\ pc = "returned"
    /\ BothKeys(parsed_response)
    /\ parsed_response.kv.action = ToolAction("write_file", WriteArgs)
    /\ result = JStr(<<"done">>)
    /\ i = 1
    /\ gatePrompts = 1
    /\ asked = Unset
    /\ invoked = Unset

\* what the panel would read if the name and str(args) stood in it as they are
Literal(call) ==
    <<"Tool:", " ">> \o Fmt(call.tool) \o <<"\n", "Arguments:", " ">> \o Str(call.args)

\* C29: a dangerous tool runs with the tool name and the arguments the operator
\* read in the panel: the gate was called with the very values of the call, and
\* the panel shows that name and str of those arguments, character for character
C29_ApprovedIsExecuted ==
    (invoked # Unset /\ invoked.tool \in DangerousNames) =>
        /\ asked = invoked
        /\ invoked.args = Get(parsed_response.kv.action, "args", JObj(NoMap))
        /\ PanelText(asked.tool, asked.args) = Literal(invoked)

\* the part of C29 that holds: between the prompt and the call the name and the
\* arguments do not change (the panel aside)
C29_ArgsNotChanged ==
    /\ (pc \in {"confirm", "call"} /\ asked # Unset) =>
          /\ asked = [tool |-> tool_name, args |-> tool_args]
          /\ tool_args = Get(parsed_response.kv.action, "args", JObj(NoMap))
    /\ (invoked # Unset /\ invoked.tool \in DangerousNames) =>
          /\ asked = invoked
          /\ invoked.args = Get(parsed_response.kv.action, "args", JObj(NoMap))

\* write_file ran with a content the panel did not show in full
C29_Witness ==
    /\ invoked = [tool |-> JStr(<<"write_file">>), args |-> StyledWriteArgs]
    /\ asked = invoked
    /\ answer = "y"
    /\ PanelText(asked.tool, asked.args) =
          <<"Tool:", " ", "write_file", "\n", "Arguments:", " ",
            "{", "'", "filepath", "': ", "'", "a.txt", "'", ", ",
            "'", "content", "': ", "'", "hello", "'", "}">>

\* C30: an exception that leaves run ends the session: from there main's except clause
\* is the only step, no run starts afterwards and nothing follows the exit; a run that
\* returned (final answer or exhaustion) is followed by the prompt; and at the prompt
\* one input starts one run, on that input, or, being exit or quit, ends the session
\* without a run
C30_ExceptionEndsSession ==
    /\ [](raised # "" => pc \in {"raised", "exited"})
    /\ [][/\ pc = "raised" => (pc' = "exited" /\ runs' = runs)
          /\ pc = "exited" => (pc' = "exited" /\ runs' = runs)
          /\ pc = "returned" => (pc' = "prompt" /\ runs' = runs)
          /\ pc = "prompt" =>
                \/ pc' = "exited" /\ runs' = runs
                \/ pc' = "loop" /\ runs' = runs + 1 /\ next_prompt' \in Goals
          /\ runs' # runs => pc = "prompt"]_vars

\* the part of C30 that holds: the same with the prompt following a run that returned
\* a str, as exhaustion does; a returned value that is not a str ends the session
C30_SessionUnlessAnswerIsNoStr ==
    /\ [](raised # "" => pc \in {"raised", "exited"})
    /\ [][/\ pc = "raised" => (pc' = "exited" /\ runs' = runs)
          /\ pc = "exited" => (pc' = "exited" /\ runs' = runs)
          /\ (pc = "returned" /\ result.t = "str") => (pc' = "prompt" /\ runs' = runs)
          /\ (pc = "returned" /\ result.t # "str") =>
                (pc' = "exited" /\ runs' = runs /\ outcome = "final")
          /\ pc = "prompt" =>
                \/ pc' = "exited" /\ runs' = runs
                \/ pc' = "loop" /\ runs' = runs + 1 /\ next_prompt' \in Goals
          /\ runs' # runs => pc = "prompt"]_vars

\* the session is over after run returned a list as the final answer of the first request
C30_Witness ==
    /\ pc = "exited"
    /\ runs = 1
    /\ raised = ""
    /\ outcome = "final"
    /\ result = JArr(<<"a.txt">>)

=============================================================================
